---- MODULE Spec2Model ----
(***************************************************************************)
(* Model of the SMS list assistant: the /sms webhook (src/main.py), the    *)
(* four category handlers (src/agents/*.py), the restaurant recommendation *)
(* flow (src/agents/restaurant.py) and the embedding backfill script       *)
(* (src/embeddings.py).                                                    *)
(*                                                                         *)
(* Text is modelled as a sequence of one-character strings so that         *)
(* lower(), strip(), split() and the substring tests are computed as the   *)
(* Python code computes them.                                               *)
(***************************************************************************)
EXTENDS Integers, Sequences, FiniteSets, TLC

VARIABLES
    store,      \* the rows of the "items" table, in insertion order
    nextId,     \* the id the table assigns to the next inserted row
    last,       \* the most recently completed request: what it was, the rows
                \* it found, the calls it made and what it answered
    again,      \* the request completed before `last` was the same operation
                \* of the same handler with the same outcome
    flow,       \* the restaurant recommendation request in progress, if any
    backfill,   \* the run of the embedding backfill script, if any
    removing    \* the movie remove-by-name requests between their select and
                \* their delete, by request slot

vars == <<store, nextId, last, again, flow, backfill, removing>>

----------------------------------------------------------------------------
(* Bounds of the model *)

\* rows ever inserted into the table in one behaviour
MaxItems == 2

\* movie remove-by-name requests in progress at the same time
MaxConcurrent == 2

----------------------------------------------------------------------------
(* Python str primitives *)

UpperChars == <<"A","B","C","D","E","F","G","H","I","J","K","L","M",
                "N","O","P","Q","R","S","T","U","V","W","X","Y","Z">>
LowerChars == <<"a","b","c","d","e","f","g","h","i","j","k","l","m",
                "n","o","p","q","r","s","t","u","v","w","x","y","z">>

\* str.lower() on one character
LowerChar(c) ==
    IF \E i \in 1..Len(UpperChars) : UpperChars[i] = c
    THEN LowerChars[CHOOSE i \in 1..Len(UpperChars) : UpperChars[i] = c]
    ELSE c

\* str.lower()
Lower(s) == [i \in 1..Len(s) |-> LowerChar(s[i])]

\* the characters str.strip() removes
IsSpace(c) == c \in {" ", "\n", "\t", "\r"}

\* str.strip()
Strip(s) ==
    IF \A i \in 1..Len(s) : IsSpace(s[i]) THEN <<>>
    ELSE LET a == CHOOSE i \in 1..Len(s) :
                      /\ ~IsSpace(s[i])
                      /\ \A j \in 1..(i-1) : IsSpace(s[j])
             b == CHOOSE i \in 1..Len(s) :
                      /\ ~IsSpace(s[i])
                      /\ \A j \in (i+1)..Len(s) : IsSpace(s[j])
         IN  SubSeq(s, a, b)

\* sub occurs in s at position i
OccursAt(s, sub, i) ==
    /\ i >= 1
    /\ i + Len(sub) - 1 <= Len(s)
    /\ \A k \in 1..Len(sub) : s[i + k - 1] = sub[k]

\* Python's `sub in s`
Contains(s, sub) == \E i \in 1..(Len(s) + 1) : OccursAt(s, sub, i)

\* position of the first occurrence of sub in s (sub must occur)
FirstIndex(s, sub) ==
    CHOOSE i \in 1..(Len(s) + 1) :
        /\ OccursAt(s, sub, i)
        /\ \A j \in 1..(i-1) : ~OccursAt(s, sub, j)

\* s.split(sep, 1)[0] when sep occurs in s
BeforeFirst(s, sep) == SubSeq(s, 1, FirstIndex(s, sep) - 1)

\* s.split(sep, 1)[1] when sep occurs in s
AfterFirst(s, sep) == SubSeq(s, FirstIndex(s, sep) + Len(sep), Len(s))

\* s.split("\n"): the list of lines, empty lines included
RECURSIVE SplitLines(_)
SplitLines(s) ==
    IF Contains(s, <<"\n">>)
    THEN <<BeforeFirst(s, <<"\n">>)>> \o SplitLines(AfterFirst(s, <<"\n">>))
    ELSE <<s>>

\* Python's None and a present value, for nullable columns
None == <<>>
Some(x) == <<x>>

----------------------------------------------------------------------------
(* Literals of the source *)

kwList        == <<"l","i","s","t">>
kwGrocery     == <<"g","r","o","c","e","r","y">>
kwMovie       == <<"m","o","v","i","e">>
kwTv          == <<"t","v">>
kwRestaurant  == <<"r","e","s","t","a","u","r","a","n","t">>
kwRemove      == <<"r","e","m","o","v","e">>
kwRecommend   == <<"r","e","c","o","m","m","e","n","d">>
sp            == <<" ">>
nl            == <<"\n">>

\* the value the grocery handler filters the category column by
GroceryFilter == <<"G">> \o Tail(kwGrocery)

rmGrocery     == kwRemove \o sp \o kwGrocery
rmMovie       == kwRemove \o sp \o kwMovie
rmTv          == kwRemove \o sp \o kwTv
rmRestaurant  == kwRemove \o sp \o kwRestaurant
listMovies    == kwList \o sp \o kwMovie \o <<"s">>
listTv        == kwList \o sp \o kwTv
listTvShows   == listTv \o sp \o <<"s","h","o","w","s">>
recommendTv   == kwRecommend \o sp \o kwTv

----------------------------------------------------------------------------
(* The items table *)

\* a row of the items table as store_data_entry builds it; notes and
\* embedding are columns the insert leaves null
Item(id, user, category, subcategory, name) ==
    [id |-> id, user_id |-> user, category |-> category,
     subcategory |-> subcategory, name |-> name,
     notes |-> None, embedding |-> None]

\* .eq("category", c)
EqCategory(rows, c) == SelectSeq(rows, LAMBDA r : r.category = c)

\* .eq("category", c).eq("name", n)
EqCategoryName(rows, c, n) ==
    SelectSeq(rows, LAMBDA r : r.category = c /\ r.name = n)

\* SQL LIKE: % matches any run of characters, _ any one character
RECURSIVE Like(_, _)
Like(s, p) ==
    IF p = <<>> THEN s = <<>>
    ELSE IF Head(p) = "%"
         THEN Like(s, Tail(p)) \/ (s # <<>> /\ Like(Tail(s), p))
    ELSE IF Head(p) = "_"
         THEN s # <<>> /\ Like(Tail(s), Tail(p))
    ELSE s # <<>> /\ Head(s) = Head(p) /\ Like(Tail(s), Tail(p))

\* SQL ILIKE: LIKE without regard to letter case
ILike(s, p) == Like(Lower(s), Lower(p))

\* .eq("category", c).ilike("name", p)
EqCategoryILikeName(rows, c, p) ==
    SelectSeq(rows, LAMBDA r : r.category = c /\ ILike(r.name, p))

\* .eq("category", c).ilike("notes", p): a null column matches no pattern
EqCategoryILikeNotes(rows, c, p) ==
    SelectSeq(rows, LAMBDA r :
        r.category = c /\ r.notes # None /\ ILike(r.notes[1], p))

\* the rows a delete leaves: those its filter did not select
Minus(rows, gone) ==
    SelectSeq(rows, LAMBDA r : \A i \in 1..Len(gone) : gone[i].id # r.id)

----------------------------------------------------------------------------
(* Replies and the record of a handled request *)

\* the text a handler returns: a fixed message, the text interpolated into
\* it, and the enumerated lines of a listing
Reply(msg, arg, lines) == [msg |-> msg, arg |-> arg, lines |-> lines]
Say(msg) == Reply(msg, <<>>, <<>>)
NoReply == Say("")

\* one call to a collaborator: which, whether it returned, rows touched
Call(op, ok, n) == [op |-> op, ok |-> ok, n |-> n]

\* a handler ran to its return statement
Returned(op, arg, reply, rows, calls) ==
    [outcome |-> "reply", op |-> op, arg |-> arg, reply |-> reply,
     store |-> rows, calls |-> calls]

\* a collaborator raised and nothing caught it
Raised(op, arg, rows, calls) ==
    [outcome |-> "fault", op |-> op, arg |-> arg, reply |-> NoReply,
     store |-> rows, calls |-> calls]

\* "{i}. {name} (User: {user_id})" for each row, numbered from 1
LinesWithUser(items) ==
    [i \in 1..Len(items) |->
        [n |-> i, name |-> items[i].name, user |-> Some(items[i].user_id)]]

\* "{i}. {name}" for each row, numbered from 1
LinesNameOnly(items) ==
    [i \in 1..Len(items) |-> [n |-> i, name |-> items[i].name, user |-> None]]

----------------------------------------------------------------------------
(* The category handlers.  Each takes the message body, the sender, the    *)
(* rows of the table and, for each store call it may make in order,        *)
(* whether that call returns (TRUE) or raises (FALSE).                     *)

\* a list branch without the test for an empty result
ListBranchNoEmptyTest(rows, category, okSelect, emptyMsg, headMsg, withUser) ==
    LET items == EqCategory(rows, category) IN
    IF ~okSelect
    THEN Raised("list", <<>>, rows, <<Call("select", FALSE, 0)>>)
    ELSE Returned("list", <<>>,
                  Reply(headMsg, <<>>,
                        IF withUser THEN LinesWithUser(items)
                                    ELSE LinesNameOnly(items)),
                  rows, <<Call("select", TRUE, Len(items))>>)

\* list branch shared by the handlers: one select, then the listing
ListBranch(rows, category, okSelect, emptyMsg, headMsg, withUser) ==
    LET items == EqCategory(rows, category) IN
    IF ~okSelect
    THEN Raised("list", <<>>, rows, <<Call("select", FALSE, 0)>>)
    ELSE IF items = <<>>
    THEN Returned("list", <<>>, Say(emptyMsg), rows,
                  <<Call("select", TRUE, 0)>>)
    ELSE Returned("list", <<>>,
                  Reply(headMsg, <<>>,
                        IF withUser THEN LinesWithUser(items)
                                    ELSE LinesNameOnly(items)),
                  rows, <<Call("select", TRUE, Len(items))>>)

\* a bulk remove whose delete removes only the first row its filter selects
RemoveAllBranchFirstRowOnly(rows, category, okDelete, doneMsg) ==
    LET all  == EqCategory(rows, category)
        gone == IF all = <<>> THEN <<>> ELSE <<Head(all)>>
    IN  IF ~okDelete
        THEN Raised("remove_all", <<>>, rows, <<Call("delete", FALSE, 0)>>)
        ELSE Returned("remove_all", <<>>, Say(doneMsg), Minus(rows, gone),
                      <<Call("delete", TRUE, Len(gone))>>)

\* bulk remove branch shared by the handlers: one unconditional delete
RemoveAllBranch(rows, category, okDelete, doneMsg) ==
    LET gone == EqCategory(rows, category) IN
    IF ~okDelete
    THEN Raised("remove_all", <<>>, rows, <<Call("delete", FALSE, 0)>>)
    ELSE Returned("remove_all", <<>>, Say(doneMsg), Minus(rows, gone),
                  <<Call("delete", TRUE, Len(gone))>>)

\* a remove-by-name whose delete is filtered by the name alone
RemoveExactBranchAnyCategory(rows, category, remainder, okDelete, doneMsg) ==
    LET gone == SelectSeq(rows, LAMBDA r : r.name = remainder) IN
    IF ~okDelete
    THEN Raised("remove_name", remainder, rows, <<Call("delete", FALSE, 0)>>)
    ELSE Returned("remove_name", remainder, Reply(doneMsg, remainder, <<>>),
                  Minus(rows, gone), <<Call("delete", TRUE, Len(gone))>>)

\* remove-by-name branch of the grocery, tv and restaurant handlers: one
\* delete by exact name, then the success reply whatever it deleted
RemoveExactBranch(rows, category, remainder, okDelete, doneMsg) ==
    LET gone == EqCategoryName(rows, category, remainder) IN
    IF ~okDelete
    THEN Raised("remove_name", remainder, rows, <<Call("delete", FALSE, 0)>>)
    ELSE Returned("remove_name", remainder, Reply(doneMsg, remainder, <<>>),
                  Minus(rows, gone), <<Call("delete", TRUE, Len(gone))>>)

\* remove-by-name branch of the movie handler: a select by pattern, and a
\* delete by the same pattern only when the select returned rows
RemoveMatchBranch(rows, category, remainder, okSelect, okDelete) ==
    LET found == EqCategoryILikeName(rows, category, remainder) IN
    IF ~okSelect
    THEN Raised("remove_name", remainder, rows, <<Call("select", FALSE, 0)>>)
    ELSE IF found = <<>>
    THEN Returned("remove_name", remainder,
                  Reply("No movie found matching: ", remainder, <<>>),
                  rows, <<Call("select", TRUE, 0)>>)
    ELSE IF ~okDelete
    THEN Raised("remove_name", remainder, rows,
                <<Call("select", TRUE, Len(found)), Call("delete", FALSE, 0)>>)
    ELSE Returned("remove_name", remainder,
                  Reply("Removed movie: ", remainder, <<>>),
                  Minus(rows, found),
                  <<Call("select", TRUE, Len(found)),
                    Call("delete", TRUE, Len(found))>>)

\* the movie handler's remove by name up to the result of its select: the
\* request ends when the select raises or returns no row, and goes on to
\* its delete ("pending") otherwise
RemoveMatchSelect(rows, category, remainder, okSelect) ==
    LET found == EqCategoryILikeName(rows, category, remainder) IN
    IF ~okSelect
    THEN Raised("remove_name", remainder, rows, <<Call("select", FALSE, 0)>>)
    ELSE IF found = <<>>
    THEN Returned("remove_name", remainder,
                  Reply("No movie found matching: ", remainder, <<>>),
                  rows, <<Call("select", TRUE, 0)>>)
    ELSE [outcome |-> "pending", op |-> "remove_name", arg |-> remainder,
          reply |-> NoReply, store |-> rows,
          calls |-> <<Call("select", TRUE, Len(found))>>]

\* a delete step that answers "no movie found" when it removed no row
RemoveMatchDeleteCounts(rows, category, remainder, nfound, okDelete) ==
    LET gone == EqCategoryILikeName(rows, category, remainder) IN
    IF ~okDelete
    THEN Raised("remove_name", remainder, rows,
                <<Call("select", TRUE, nfound), Call("delete", FALSE, 0)>>)
    ELSE Returned("remove_name", remainder,
                  Reply(IF gone = <<>> THEN "No movie found matching: "
                        ELSE "Removed movie: ", remainder, <<>>),
                  Minus(rows, gone),
                  <<Call("select", TRUE, nfound),
                    Call("delete", TRUE, Len(gone))>>)

\* the movie handler's remove by name from its delete on, nfound being the
\* number of rows its select returned: the delete applies the same filter
\* to the rows the table holds now, and the success reply follows
RemoveMatchDelete(rows, category, remainder, nfound, okDelete) ==
    LET gone == EqCategoryILikeName(rows, category, remainder) IN
    IF ~okDelete
    THEN Raised("remove_name", remainder, rows,
                <<Call("select", TRUE, nfound), Call("delete", FALSE, 0)>>)
    ELSE Returned("remove_name", remainder,
                  Reply("Removed movie: ", remainder, <<>>),
                  Minus(rows, gone),
                  <<Call("select", TRUE, nfound),
                    Call("delete", TRUE, Len(gone))>>)

\* the help text a handler returns when no command form matched
HelpBranch(rows, msg) == Returned("help", <<>>, Say(msg), rows, <<>>)

\* the literal prefix of the movie handler's pattern
\*   recommend me a?n?\s+(.*?)\s+movie
recommendMe == kwRecommend \o sp \o <<"m","e">> \o sp

\* the characters \s matches
IsReSpace(c) == c \in {" ", "\n", "\t", "\r", "\f"}

\* characters the optional a?n? consume under choice o, tried in the
\* order the regex engine tries them: both, a only, n only, neither
OptionalTaken(s, p, o) ==
    CASE o = 1 -> IF OccursAt(s, <<"a","n">>, p) THEN 2 ELSE -1
      [] o = 2 -> IF OccursAt(s, <<"a">>, p) THEN 1 ELSE -1
      [] o = 3 -> IF OccursAt(s, <<"n">>, p) THEN 1 ELSE -1
      [] OTHER -> 0

\* the pattern matches s from position i with optional choice o, the first
\* \s+ ending before q and the group being s[q..e]
GenreMatch(s, i, o, q, e) ==
    LET t == OptionalTaken(s, i + Len(recommendMe), o)
        p == i + Len(recommendMe) + t
    IN  /\ OccursAt(s, recommendMe, i)
        /\ t >= 0
        /\ q > p /\ q <= Len(s) + 1 /\ e >= q - 1 /\ e <= Len(s)
        /\ \A k \in p..(q-1) : IsReSpace(s[k])
        /\ \A k \in q..e : s[k] # "\n"
        /\ \E m \in (e+2)..Len(s) :
              /\ \A k \in (e+1)..(m-1) : IsReSpace(s[k])
              /\ OccursAt(s, kwMovie, m)

\* re.search(...) found a match
GenreFound(s) ==
    \E i \in 1..Len(s) :
        /\ OccursAt(s, recommendMe, i)
        /\ \E o \in 1..4, q \in 1..(Len(s)+1), e \in 0..Len(s) :
              GenreMatch(s, i, o, q, e)

\* match.group(1).strip() of the match re.search returns: leftmost start,
\* first optional choice, longest first \s+, shortest group
Genre(s) ==
    LET i == CHOOSE i \in 1..Len(s) :
                 /\ OccursAt(s, recommendMe, i)
                 /\ \E o \in 1..4, q \in 1..(Len(s)+1), e \in 0..Len(s) :
                        GenreMatch(s, i, o, q, e)
                 /\ \A j \in 1..(i-1) :
                        ~OccursAt(s, recommendMe, j) \/
                        ~\E o \in 1..4, q \in 1..(Len(s)+1), e \in 0..Len(s) :
                            GenreMatch(s, j, o, q, e)
        o == CHOOSE o \in 1..4 :
                 /\ \E q \in 1..(Len(s)+1), e \in 0..Len(s) :
                        GenreMatch(s, i, o, q, e)
                 /\ \A o2 \in 1..(o-1) :
                        ~\E q \in 1..(Len(s)+1), e \in 0..Len(s) :
                            GenreMatch(s, i, o2, q, e)
        q == CHOOSE q \in 1..(Len(s)+1) :
                 /\ \E e \in 0..Len(s) : GenreMatch(s, i, o, q, e)
                 /\ \A q2 \in (q+1)..(Len(s)+1) :
                        ~\E e \in 0..Len(s) : GenreMatch(s, i, o, q2, e)
        e == CHOOSE e \in 0..Len(s) :
                 /\ GenreMatch(s, i, o, q, e)
                 /\ \A e2 \in 0..(e-1) : ~GenreMatch(s, i, o, q, e2)
    IN  Strip(SubSeq(s, q, e))

\* the branch a handler takes on a message, and the text it acts on
Command(branch, text) == [branch |-> branch, text |-> text]

\* handle_grocery_request's tests on the message text
GroceryCommand(body_text) ==
    LET lower_text == Lower(body_text) IN
    IF Contains(lower_text, kwList) THEN Command("list", <<>>)
    ELSE IF Contains(lower_text, rmGrocery)
    THEN LET remainder == Strip(AfterFirst(lower_text, rmGrocery)) IN
         IF remainder = <<>> THEN Command("remove_all", <<>>)
         ELSE Command("remove_name", remainder)
    ELSE Command("help", <<>>)

\* handle_tv_request's tests on the message text
TvCommand(body_text) ==
    LET lower_text == Lower(body_text) IN
    IF Contains(lower_text, listTv) \/ Contains(lower_text, listTvShows)
    THEN Command("list", <<>>)
    ELSE IF Contains(lower_text, rmTv)
    THEN LET remainder == Strip(AfterFirst(lower_text, rmTv)) IN
         IF remainder = <<>> THEN Command("remove_all", <<>>)
         ELSE Command("remove_name", remainder)
    ELSE IF Contains(lower_text, recommendTv) THEN Command("recommend", <<>>)
    ELSE Command("help", <<>>)

\* handle_movie_request's tests on the message text
MovieCommand(body_text) ==
    LET lower_text == Lower(body_text) IN
    IF Contains(lower_text, listMovies) THEN Command("list", <<>>)
    ELSE IF Contains(lower_text, rmMovie)
    THEN LET remainder == Strip(AfterFirst(lower_text, rmMovie)) IN
         IF remainder = <<>> THEN Command("remove_all", <<>>)
         ELSE Command("remove_name", remainder)
    ELSE IF GenreFound(lower_text)
    THEN Command("recommend", Genre(lower_text))
    ELSE Command("help", <<>>)

\* the restaurant handler's tests with the remove test before the list test
RestaurantCommandRemoveFirst(body_text) ==
    LET lower_text == Lower(body_text) IN
    IF Contains(lower_text, rmRestaurant)
    THEN LET remainder == Strip(AfterFirst(lower_text, rmRestaurant)) IN
         IF remainder = <<>> THEN Command("remove_all", <<>>)
         ELSE Command("remove_name", remainder)
    ELSE IF Contains(lower_text, kwList) THEN Command("list", <<>>)
    ELSE IF Contains(lower_text, kwRecommend) THEN Command("recommend", <<>>)
    ELSE Command("help", <<>>)

\* handle_restaurant_request's tests on the message text
RestaurantCommand(body_text) ==
    LET lower_text == Lower(body_text) IN
    IF Contains(lower_text, kwList) THEN Command("list", <<>>)
    ELSE IF Contains(lower_text, rmRestaurant)
    THEN LET remainder == Strip(AfterFirst(lower_text, rmRestaurant)) IN
         IF remainder = <<>> THEN Command("remove_all", <<>>)
         ELSE Command("remove_name", remainder)
    ELSE IF Contains(lower_text, kwRecommend) THEN Command("recommend", <<>>)
    ELSE Command("help", <<>>)

----------------------------------------------------------------------------
(* The dispatcher's tests on the message text (src/main.py) *)

\* the two-line test asking for a third line
is_data_entry_format_three(body_text) ==
    Len(SplitLines(Strip(body_text))) >= 3

is_data_entry_format(body_text) == Len(SplitLines(Strip(body_text))) >= 2

\* the parser keeping the letter case of the name
ParseEntryKeepsCase(body_text) ==
    LET lines == SplitLines(Strip(body_text))
        line1 == Strip(lines[1])
        line2 == Strip(lines[2])
        hasComma == Contains(line1, <<",">>)
        subcategory_raw == Lower(Strip(AfterFirst(line1, <<",">>)))
    IN  [category    |-> IF hasComma
                         THEN Lower(Strip(BeforeFirst(line1, <<",">>)))
                         ELSE Lower(line1),
         subcategory |-> IF hasComma /\ subcategory_raw # <<>>
                         THEN Some(subcategory_raw)
                         ELSE None,
         name        |-> Strip(line2)]

\* the parser taking the name from the last line of the message
ParseEntryLastLine(body_text) ==
    LET lines == SplitLines(Strip(body_text))
        line1 == Strip(lines[1])
        line2 == Strip(lines[Len(lines)])
        hasComma == Contains(line1, <<",">>)
        subcategory_raw == Lower(Strip(AfterFirst(line1, <<",">>)))
    IN  [category    |-> IF hasComma
                         THEN Lower(Strip(BeforeFirst(line1, <<",">>)))
                         ELSE Lower(line1),
         subcategory |-> IF hasComma /\ subcategory_raw # <<>>
                         THEN Some(subcategory_raw)
                         ELSE None,
         name        |-> Lower(Strip(line2))]

\* the fields store_data_entry parses out of a message of two lines or more
ParseEntry(body_text) ==
    LET lines == SplitLines(Strip(body_text))
        line1 == Strip(lines[1])
        line2 == Strip(lines[2])
        hasComma == Contains(line1, <<",">>)
        subcategory_raw == Lower(Strip(AfterFirst(line1, <<",">>)))
    IN  [category    |-> IF hasComma
                         THEN Lower(Strip(BeforeFirst(line1, <<",">>)))
                         ELSE Lower(line1),
         subcategory |-> IF hasComma /\ subcategory_raw # <<>>
                         THEN Some(subcategory_raw)
                         ELSE None,
         name        |-> Lower(Strip(line2))]

\* the handler handle_request routes a command to
RouteOf(body_text) ==
    IF Contains(Lower(body_text), kwGrocery) THEN "grocery" ELSE "unknown"

----------------------------------------------------------------------------
(* Inputs *)

UpperChar(c) ==
    IF \E i \in 1..Len(LowerChars) : LowerChars[i] = c
    THEN UpperChars[CHOOSE i \in 1..Len(LowerChars) : LowerChars[i] = c]
    ELSE c
Upper(s) == [i \in 1..Len(s) |-> UpperChar(s[i])]
Cap(s) == <<UpperChar(Head(s))>> \o Tail(s)

wBananas == <<"b","a","n","a","n","a","s">>
wMilk    == <<"m","i","l","k">>
wHello   == <<"h","e","l","l","o">>
wFancy   == <<"f","a","n","c","y">>
wProduce == <<"p","r","o","d","u","c","e">>
wAction  == <<"a","c","t","i","o","n">>

\* senders: two phone numbers, and the missing From field
Users == {"+1", "+2"}
Senders == Users \cup {""}

\* the user_id the handler functions are called with directly
Callers == {"+1"}

\* two-line messages sent to the webhook; the last one has no category
EntryBodies ==
    { Cap(kwGrocery) \o nl \o Cap(wBananas),
      Cap(kwMovie) \o <<",">> \o sp \o Cap(wAction) \o nl \o Cap(wBananas),
      kwMovie \o nl \o wMilk,
      <<",">> \o sp \o wProduce \o nl \o wMilk }

\* one-line messages sent to the webhook, and the empty Body field
CommandBodies ==
    { kwList \o sp \o kwGrocery,
      rmGrocery,
      Cap(rmGrocery) \o sp \o Upper(wBananas),
      listMovies,
      wHello,
      <<>> }

SmsBodies == EntryBodies \cup CommandBodies

\* command texts each handler function is called with
HandlerBodies(h) ==
    CASE h = "grocery" ->
            { kwList \o sp \o kwGrocery, rmGrocery \o sp \o Cap(wMilk) }
      [] h = "movie" ->
            { listMovies, rmMovie, rmMovie \o sp \o Upper(wBananas),
              recommendMe \o <<"a","n">> \o sp \o wAction \o sp \o kwMovie,
              wHello }
      [] h = "tv" ->
            { listTvShows, rmTv, rmTv \o sp \o Cap(wMilk), recommendTv,
              wHello }
      [] h = "restaurant" ->
            { kwList \o sp \o kwRestaurant \o <<"s">>, rmRestaurant,
              rmRestaurant \o sp \o Cap(wMilk),
              kwRecommend \o sp \o <<"a">> \o sp \o wFancy \o sp \o kwRestaurant,
              wHello }

\* messages sent to the webhook to exercise the two-line test and the entry
\* parser: leading and trailing whitespace, a command text on line 1, more
\* than one comma, an empty right part, a third line, an empty second line
wSci == <<"s","c","i">>
wFi  == <<"f","i">>
FormatEntry ==
    sp \o Cap(kwMovie) \o sp \o <<",">> \o Cap(wSci) \o <<",">> \o sp
       \o Cap(wFi) \o sp \o nl \o sp \o Upper(wMilk)
FormatBodies ==
    { Cap(rmGrocery) \o nl \o Cap(wBananas),
      FormatEntry,
      FormatEntry \o sp \o nl \o Cap(wHello),
      Cap(kwTv) \o <<",">> \o sp \o nl \o Cap(wMilk),
      <<",">> \o sp \o wProduce \o nl \o wMilk,
      kwGrocery \o nl \o nl \o wMilk,
      kwList \o sp \o kwGrocery \o nl,
      nl \o sp \o wHello,
      sp \o nl,
      <<>> }

\* the senders of those messages
FormatSenders == {"+1", ""}

\* command texts in which the words of two branches of a handler occur
wShopping == <<"s","h","o","p","p","i","n","g">>
fromMyList == <<"f","r","o","m">> \o sp \o <<"m","y">> \o sp \o kwList
PrecedenceBodies(h) ==
    CASE h = "grocery" ->
            { rmGrocery \o sp \o wShopping \o sp \o kwList,
              Cap(rmGrocery) \o sp \o Cap(wBananas) }
      [] h = "restaurant" ->
            { Cap(rmRestaurant) \o sp \o fromMyList,
              Cap(kwRecommend) \o sp \o <<"a">> \o sp \o kwRestaurant
                  \o sp \o fromMyList,
              rmRestaurant \o sp \o kwRecommend,
              kwRecommend \o sp \o <<"a">> \o sp \o wFancy \o sp \o kwRestaurant,
              rmRestaurant }

\* the handlers those texts are for
PrecedenceHandlers == {"grocery", "restaurant"}

\* the data-entry message that fills the table for them
PrecedenceEntries == { Cap(kwRestaurant) \o nl \o Cap(wMilk) }

\* the data-entry messages and the restaurant commands sent while the
\* backfill script runs
BackfillEntries ==
    { Cap(kwRestaurant) \o nl \o Cap(wMilk),
      kwRestaurant \o nl \o wBananas,
      kwMovie \o nl \o wMilk }
BackfillCommands ==
    { <<"restaurant", rmRestaurant \o sp \o Cap(wMilk)>>,
      <<"restaurant", rmRestaurant>>,
      <<"movie", rmMovie>> }

\* the data-entry messages and the movie commands of the concurrent
\* remove-by-name requests
RaceEntries ==
    { Cap(kwMovie) \o nl \o Cap(wMilk),
      kwMovie \o <<",">> \o sp \o wAction \o nl \o wBananas }
RaceCommands ==
    { rmMovie \o sp \o Upper(wMilk), Cap(rmMovie) \o sp \o wBananas }

Handlers == {"grocery", "movie", "tv", "restaurant"}

\* the handlers' tests by handler name
CommandOf(h, body_text) ==
    CASE h = "grocery"    -> GroceryCommand(body_text)
      [] h = "movie"      -> MovieCommand(body_text)
      [] h = "tv"         -> TvCommand(body_text)
      [] h = "restaurant" -> RestaurantCommand(body_text)

AllBodies ==
    SmsBodies \cup FormatBodies \cup PrecedenceEntries
    \cup BackfillEntries \cup {c[2] : c \in BackfillCommands}
    \cup RaceEntries \cup RaceCommands
    \cup UNION {HandlerBodies(h) : h \in Handlers}
    \cup UNION {PrecedenceBodies(h) : h \in PrecedenceHandlers}

\* the text tests above, evaluated once for every message of the model
CommandTable == [h \in Handlers |-> [b \in AllBodies |-> CommandOf(h, b)]]
RouteTable   == [b \in AllBodies |-> RouteOf(b)]
FormatTable  == [b \in AllBodies |-> is_data_entry_format(b)]
EntryTable   == [b \in {x \in AllBodies : is_data_entry_format(x)} |->
                    ParseEntry(b)]

----------------------------------------------------------------------------
(* The category handlers.  Each takes the message body, the sender, the    *)
(* rows of the table and, for each store call it may make in order,        *)
(* whether that call returns (TRUE) or raises (FALSE).                     *)

handle_grocery_request(body_text, user_id, rows, oks) ==
    LET c == CommandTable["grocery"][body_text] IN
    CASE c.branch = "list" ->
            ListBranch(rows, GroceryFilter, oks[1],
                       "No grocery items found for anyone.",
                       "All grocery items (all users):", TRUE)
      [] c.branch = "remove_all" ->
            RemoveAllBranch(rows, GroceryFilter, oks[1],
                            "All grocery items removed for all users!")
      [] c.branch = "remove_name" ->
            RemoveExactBranch(rows, GroceryFilter, c.text, oks[1],
                              "Removed grocery item: ")
      [] OTHER ->
            HelpBranch(rows, "Not sure what you want to do with groceries.")

handle_tv_request(body_text, user_id, rows, oks) ==
    LET c == CommandTable["tv"][body_text] IN
    CASE c.branch = "list" ->
            ListBranch(rows, kwTv, oks[1], "No TV items found.",
                       "All TV items:", FALSE)
      [] c.branch = "remove_all" ->
            RemoveAllBranch(rows, kwTv, oks[1], "All TV items removed!")
      [] c.branch = "remove_name" ->
            RemoveExactBranch(rows, kwTv, c.text, oks[1], "Removed TV item: ")
      [] c.branch = "recommend" ->
            Returned("recommend", <<>>,
                     Say("Here are a few TV recommendations:"), rows, <<>>)
      [] OTHER -> HelpBranch(rows, "Not sure what you want to do with TV.")

\* the movie handler's recommend branch: one select on the notes column
RecommendByNotes(rows, genre, okSelect) ==
    LET items == EqCategoryILikeNotes(rows, kwMovie,
                                      <<"%">> \o genre \o <<"%">>)
    IN  IF ~okSelect
        THEN Raised("recommend", genre, rows, <<Call("select", FALSE, 0)>>)
        ELSE IF items = <<>>
        THEN Returned("recommend", genre,
                      Reply("No recommendations found for ", genre, <<>>),
                      rows, <<Call("select", TRUE, 0)>>)
        ELSE Returned("recommend", genre,
                      Reply("Recommended ", genre, LinesNameOnly(items)),
                      rows, <<Call("select", TRUE, Len(items))>>)

handle_movie_request(body_text, user_id, rows, oks) ==
    LET c == CommandTable["movie"][body_text] IN
    CASE c.branch = "list" ->
            ListBranch(rows, kwMovie, oks[1], "No movies found.",
                       "All movies:", FALSE)
      [] c.branch = "remove_all" ->
            RemoveAllBranch(rows, kwMovie, oks[1], "All movies removed!")
      [] c.branch = "remove_name" ->
            RemoveMatchBranch(rows, kwMovie, c.text, oks[1], oks[2])
      [] c.branch = "recommend" -> RecommendByNotes(rows, c.text, oks[1])
      [] OTHER -> HelpBranch(rows, "Not sure what you want to do with movies.")

\* the restaurant handler up to the point where the recommendation flow
\* makes its first provider call: outcome "pending" hands over to the flow
handle_restaurant_request(body_text, user_id, rows, oks) ==
    LET c == CommandTable["restaurant"][body_text] IN
    CASE c.branch = "list" ->
            ListBranch(rows, kwRestaurant, oks[1],
                       "No restaurant items found.",
                       "All restaurant items:", FALSE)
      [] c.branch = "remove_all" ->
            RemoveAllBranch(rows, kwRestaurant, oks[1],
                            "All restaurant items removed!")
      [] c.branch = "remove_name" ->
            RemoveExactBranch(rows, kwRestaurant, c.text, oks[1],
                              "Removed restaurant item: ")
      [] c.branch = "recommend" ->
            [outcome |-> "pending", op |-> "recommend", arg |-> <<>>,
             reply |-> NoReply, store |-> rows, calls |-> <<>>]
      [] OTHER ->
            HelpBranch(rows, "Not sure what you want to do with restaurants.")

----------------------------------------------------------------------------
(* The dispatcher (src/main.py) *)

\* store_data_entry without the validation of category and name
store_data_entry_unvalidated(from_number, body_text, rows, id, insertOutcome) ==
    LET e == EntryTable[body_text] IN
    IF insertOutcome = "raise"
    THEN Returned("store", e.name, Say("Unexpected error: "), rows,
                  <<Call("insert", FALSE, 0)>>)
    ELSE IF insertOutcome = "nodata"
    THEN Returned("store", e.name, Say("Database error: No data returned"),
                  rows, <<Call("insert", TRUE, 0)>>)
    ELSE Returned("store", e.name, Say("Stored!"),
                  Append(rows, Item(id, from_number, e.category,
                                    e.subcategory, e.name)),
                  <<Call("insert", TRUE, 1)>>)

\* store_data_entry: validation, then one insert whose outcome is "ok",
\* "nodata" (the call returned no row) or "raise"
store_data_entry(from_number, body_text, rows, id, insertOutcome) ==
    LET e == EntryTable[body_text] IN
    IF e.category = <<>> \/ e.name = <<>>
    THEN Returned("store", e.name, Say("Error: Missing category or name."),
                  rows, <<>>)
    ELSE IF insertOutcome = "raise"
    THEN Returned("store", e.name, Say("Unexpected error: "), rows,
                  <<Call("insert", FALSE, 0)>>)
    ELSE IF insertOutcome = "nodata"
    THEN Returned("store", e.name, Say("Database error: No data returned"),
                  rows, <<Call("insert", TRUE, 0)>>)
    ELSE Returned("store", e.name, Say("Stored!"),
                  Append(rows, Item(id, from_number, e.category,
                                    e.subcategory, e.name)),
                  <<Call("insert", TRUE, 1)>>)

\* the handler functions by name
HandlerResult(h, body_text, user_id, rows, oks) ==
    CASE h = "grocery"    -> handle_grocery_request(body_text, user_id, rows, oks)
      [] h = "movie"      -> handle_movie_request(body_text, user_id, rows, oks)
      [] h = "tv"         -> handle_tv_request(body_text, user_id, rows, oks)
      [] h = "restaurant" -> handle_restaurant_request(body_text, user_id, rows, oks)

\* handle_request: the grocery handler, or the fixed fallback text
handle_request(from_number, body_text, rows, oks) ==
    IF RouteTable[body_text] = "grocery"
    THEN handle_grocery_request(body_text, from_number, rows, oks)
    ELSE Returned("help", <<>>, Say("Sorry, I'm not sure what you need."),
                  rows, <<>>)

----------------------------------------------------------------------------
(* The recommendation flow (handle_restaurant_request, step 3) *)

\* generate_embedding's default number of attempts
max_retries == 3

\* the vector length generate_embedding accepts
EmbeddingDim == 1536

\* the match_count the similarity search is called with
match_count == 3

\* the loop without the re-raise on the last attempt: it runs out and the
\* function returns without a vector
EmbedAttemptNoReraise(attempt, callOk, veclen) ==
    IF callOk /\ veclen = EmbeddingDim THEN "return"
    ELSE IF attempt = max_retries - 1 THEN "return"
    ELSE "sleep"

\* the loop without the limit on the number of attempts
EmbedAttemptNeverGivesUp(attempt, callOk, veclen) ==
    IF callOk /\ veclen = EmbeddingDim THEN "return" ELSE "sleep"

\* the loop without the test of the vector's length
EmbedAttemptAnyLength(attempt, callOk, veclen) ==
    IF callOk THEN "return"
    ELSE IF attempt = max_retries - 1 THEN "raise"
    ELSE "sleep"

\* what one pass of generate_embedding's loop does after the provider call:
\* return the vector, sleep and try again, or re-raise
EmbedAttempt(attempt, callOk, veclen) ==
    IF callOk /\ veclen = EmbeddingDim THEN "return"
    ELSE IF attempt = max_retries - 1 THEN "raise"
    ELSE "sleep"

\* the flow without the test for an empty search result
AfterSearchNoEmptyTest(nrows) ==
    IF nrows < 0 THEN "error" ELSE "generate"

\* what the flow does with the similarity search's outcome (rows < 0: the
\* call raised)
AfterSearch(nrows) ==
    IF nrows < 0 THEN "error"
    ELSE IF nrows = 0 THEN "none"
    ELSE "generate"

----------------------------------------------------------------------------
(* Outcomes of the collaborators *)

\* for each of the n store calls a handler may make, in order: returns
\* (TRUE) or raises (FALSE)
StoreOutcomes(n) ==
    {<<a, b>> : a \in IF n >= 1 THEN BOOLEAN ELSE {TRUE},
                b \in IF n >= 2 THEN BOOLEAN ELSE {TRUE}}

\* the number of store calls a handler's branch may make
StoreCalls(h, c) ==
    IF c.branch = "help" \/ (h = "tv" /\ c.branch = "recommend") THEN 0
    ELSE IF h = "movie" /\ c.branch = "remove_name" THEN 2
    ELSE 1
InsertOutcomes == {"ok", "nodata", "raise"}

\* the provider's answers to an embedding call: raises, or a vector of
\* the right or of a wrong length
EmbedOutcomes ==
    {[ok |-> FALSE, len |-> 0]}
    \cup {[ok |-> TRUE, len |-> n] : n \in {EmbeddingDim, EmbeddingDim \div 2}}

\* the similarity search's answers: raises (-1), or 0..match_count rows
SearchOutcomes == (-1)..match_count

----------------------------------------------------------------------------
(* State machine *)

Nothing ==
    [via |-> "none", handler |-> "none", body |-> <<>>, op |-> "none",
     arg |-> <<>>, outcome |-> "none", reply |-> NoReply, calls |-> <<>>,
     before |-> <<>>]

Idle == [pc |-> "idle", via |-> "none", body |-> <<>>, attempt |-> 0,
         calls |-> <<>>]

\* the slots of the concurrent movie remove-by-name requests
Slots == 1..MaxConcurrent

\* no request is between its select and its delete in this slot
NotRemoving == [pc |-> "idle", body |-> <<>>, arg |-> <<>>, found |-> 0]

\* the backfill script is not running and has not run
NotRunning == [pc |-> "idle", rows |-> <<>>, i |-> 0, attempt |-> 0,
               veclen |-> 0, log |-> <<>>]

Init ==
    /\ store = <<>>
    /\ nextId = 1
    /\ last = Nothing
    /\ again = FALSE
    /\ flow = Idle
    /\ backfill = NotRunning
    /\ removing = [p \in Slots |-> NotRemoving]

\* a request ends: its answer (or fault) goes to the transport
Finish(via, handler, body, res) ==
    /\ last' = [via |-> via, handler |-> handler, body |-> body,
                op |-> res.op, arg |-> res.arg, outcome |-> res.outcome,
                reply |-> res.reply, calls |-> res.calls, before |-> store]
    /\ again' = (/\ last.handler = handler
                  /\ last.op = res.op
                  /\ last.outcome = res.outcome)
    /\ store' = res.store

\* receive_sms, "Basic validations" failing
SmsInvalid(from_number, body_text) ==
    /\ flow.pc = "idle"
    /\ from_number = "" \/ body_text = <<>>
    /\ Finish("sms", "none", body_text,
              Returned("invalid", <<>>,
                       Say("Error: Missing phone number or message body."),
                       store, <<>>))
    /\ UNCHANGED <<nextId, flow, backfill, removing>>

\* receive_sms on a message of two lines or more: store_data_entry
SmsStore(from_number, body_text) ==
    /\ flow.pc = "idle"
    /\ from_number # "" /\ body_text # <<>>
    /\ FormatTable[body_text]
    /\ \E insertOutcome \in InsertOutcomes :
          \E res \in {store_data_entry(from_number, body_text, store, nextId,
                                       insertOutcome)} :
          LET inserted == Len(res.store) > Len(store)
          IN  /\ inserted => nextId <= MaxItems
              /\ Finish("sms", "store", body_text, res)
              /\ nextId' = IF inserted THEN nextId + 1 ELSE nextId
    /\ UNCHANGED <<flow, backfill, removing>>

\* receive_sms on any other message: handle_request
SmsCommand(from_number, body_text) ==
    /\ flow.pc = "idle"
    /\ from_number # "" /\ body_text # <<>>
    /\ ~FormatTable[body_text]
    /\ \E oks \in StoreOutcomes(IF RouteTable[body_text] = "grocery"
                                 THEN StoreCalls("grocery",
                                          CommandTable["grocery"][body_text])
                                 ELSE 0) :
       \E res \in {handle_request(from_number, body_text, store, oks)} :
          Finish("sms", RouteTable[body_text], body_text, res)
    /\ UNCHANGED <<nextId, flow, backfill, removing>>

\* the restaurant handler's recommend branch is the flow below
StartsFlow(h, body_text) ==
    h = "restaurant" /\ CommandTable[h][body_text].branch = "recommend"

\* a handler function called with a command text
Handle(h, body_text, user_id) ==
    /\ flow.pc = "idle"
    /\ ~StartsFlow(h, body_text)
    /\ \E oks \in StoreOutcomes(StoreCalls(h, CommandTable[h][body_text])) :
       \E res \in {HandlerResult(h, body_text, user_id, store, oks)} :
          Finish("call", h, body_text, res)
    /\ UNCHANGED <<nextId, flow, backfill, removing>>

\* the restaurant handler called with a recommend command: it is about to
\* call generate_embedding
Recommend(body_text, user_id) ==
    /\ flow.pc = "idle"
    /\ StartsFlow("restaurant", body_text)
    /\ flow' = [pc |-> "embed", via |-> "call", body |-> body_text,
                attempt |-> 0, calls |-> <<>>]
    /\ UNCHANGED <<store, nextId, last, again, backfill, removing>>

\* the recommendation request ends with this reply
FlowEnds(msg, calls) ==
    /\ Finish(flow.via, "restaurant", flow.body,
              Returned("recommend", <<>>, Say(msg), store, calls))
    /\ flow' = Idle
    /\ UNCHANGED <<nextId, backfill, removing>>

\* STEP A: one attempt of generate_embedding
EmbedCall ==
    /\ flow.pc = "embed"
    /\ \E out \in EmbedOutcomes :
          LET calls == Append(flow.calls, Call("embed", out.ok, out.len))
              next  == EmbedAttempt(flow.attempt, out.ok, out.len)
          IN  CASE next = "return" ->
                     /\ flow' = [flow EXCEPT !.pc = "search", !.calls = calls]
                     /\ UNCHANGED <<store, nextId, last, again, backfill, removing>>
                [] next = "sleep" ->
                     /\ flow' = [flow EXCEPT
                                   !.attempt = @ + 1,
                                   !.calls = Append(calls, Call("sleep", TRUE, 0))]
                     /\ UNCHANGED <<store, nextId, last, again, backfill, removing>>
                [] next = "raise" ->
                     FlowEnds("Error generating embedding for query: ", calls)

\* STEP B: the similarity search
VectorSearch ==
    /\ flow.pc = "search"
    /\ \E nrows \in SearchOutcomes :
          LET calls == Append(flow.calls,
                              Call("search", nrows >= 0,
                                   IF nrows >= 0 THEN nrows ELSE 0))
              next  == AfterSearch(nrows)
          IN  CASE next = "error" ->
                     FlowEnds("Error performing vector search: ", calls)
                [] next = "none" ->
                     FlowEnds("No relevant restaurants found via vector search.",
                              calls)
                [] next = "generate" ->
                     /\ flow' = [flow EXCEPT !.pc = "generate", !.calls = calls]
                     /\ UNCHANGED <<store, nextId, last, again, backfill, removing>>

\* STEP D: the text generation call
Generate ==
    /\ flow.pc = "generate"
    /\ \E ok \in BOOLEAN :
          FlowEnds(IF ok THEN "<final_answer>"
                   ELSE "Error calling LLM for final recommendation: ",
                   Append(flow.calls, Call("generate", ok, 0)))

\* the movie handler called with a remove-by-name command: its select
MovieRemoveSelect(p, body_text, user_id) ==
    /\ removing[p].pc = "idle"
    /\ CommandTable["movie"][body_text].branch = "remove_name"
    /\ \E okSelect \in BOOLEAN :
       \E res \in {RemoveMatchSelect(store, kwMovie,
                                     CommandTable["movie"][body_text].text,
                                     okSelect)} :
          IF res.outcome = "pending"
          THEN /\ removing' = [removing EXCEPT ![p] =
                                 [pc |-> "delete", body |-> body_text,
                                  arg |-> res.arg, found |-> res.calls[1].n]]
               /\ UNCHANGED <<store, last, again>>
          ELSE /\ Finish("call", "movie", body_text, res)
               /\ UNCHANGED removing
    /\ UNCHANGED <<nextId, flow, backfill>>

\* the delete of a movie remove-by-name request whose select returned rows
MovieRemoveDelete(p) ==
    /\ removing[p].pc = "delete"
    /\ \E okDelete \in BOOLEAN :
          Finish("call", "movie", removing[p].body,
                 RemoveMatchDelete(store, kwMovie, removing[p].arg,
                                   removing[p].found, okDelete))
    /\ removing' = [removing EXCEPT ![p] = NotRemoving]
    /\ UNCHANGED <<nextId, flow, backfill>>

\* .eq("category", "restaurant").is_("embedding", "null")
RestaurantsWithoutEmbedding(rows) ==
    SelectSeq(rows, LAMBDA r : r.category = kwRestaurant /\ r.embedding = None)

\* an update that also clears the name column
UpdateEmbeddingAndName(rows, row_id, veclen) ==
    [k \in 1..Len(rows) |->
        IF rows[k].id = row_id
        THEN [rows[k] EXCEPT !.embedding = Some(veclen), !.name = <<>>]
        ELSE rows[k]]

\* .update({"embedding": vector}).eq("id", row_id); a vector is modelled by
\* its number of components
UpdateEmbedding(rows, row_id, veclen) ==
    [k \in 1..Len(rows) |->
        IF rows[k].id = row_id
        THEN [rows[k] EXCEPT !.embedding = Some(veclen)]
        ELSE rows[k]]

\* f"{name} {notes}".strip() of a fetched row, a null column read as ""
text_to_embed(row) ==
    Strip(row.name \o sp \o (IF row.notes = None THEN <<>> ELSE row.notes[1]))

\* the script goes on with the next fetched row, or ends after the last
NextRow(result) ==
    LET log == Append(backfill.log,
                      [id |-> backfill.rows[backfill.i].id, result |-> result])
    IN  IF backfill.i = Len(backfill.rows)
        THEN [backfill EXCEPT !.pc = "done", !.log = log, !.attempt = 0,
                              !.veclen = 0]
        ELSE [backfill EXCEPT !.pc = "embed", !.i = @ + 1, !.log = log,
                              !.attempt = 0, !.veclen = 0]

\* generate_restaurant_embeddings starts: it fetches the restaurant rows
\* whose embedding is null; a raising select ends the script
BackfillFetch ==
    /\ backfill.pc \in {"idle", "done"}
    /\ \E okSelect \in BOOLEAN :
          LET rows == IF okSelect THEN RestaurantsWithoutEmbedding(store)
                      ELSE <<>>
          IN  backfill' = [pc |-> IF rows = <<>> THEN "done" ELSE "embed",
                           rows |-> rows,
                           i |-> IF rows = <<>> THEN 0 ELSE 1,
                           attempt |-> 0, veclen |-> 0, log |-> <<>>]
    /\ UNCHANGED <<store, nextId, last, again, flow, removing>>

\* one attempt of generate_embedding for the current row (or the row is
\* skipped because it has no text)
BackfillEmbed ==
    /\ backfill.pc = "embed"
    /\ IF text_to_embed(backfill.rows[backfill.i]) = <<>>
       THEN backfill' = NextRow("skipped")
       ELSE \E out \in EmbedOutcomes :
              LET next == EmbedAttempt(backfill.attempt, out.ok, out.len) IN
              CASE next = "return" ->
                     backfill' = [backfill EXCEPT !.pc = "update",
                                                  !.veclen = out.len]
                [] next = "sleep" ->
                     backfill' = [backfill EXCEPT !.attempt = @ + 1]
                [] next = "raise" ->
                     backfill' = NextRow("failed")
    /\ UNCHANGED <<store, nextId, last, again, flow, removing>>

\* the update of the current row's embedding column; a raising update is
\* reported and the script goes on
BackfillUpdate ==
    /\ backfill.pc = "update"
    /\ \E okUpdate \in BOOLEAN :
          IF okUpdate
          THEN /\ store' = UpdateEmbedding(store, backfill.rows[backfill.i].id,
                                           backfill.veclen)
               /\ backfill' = NextRow("written")
          ELSE /\ store' = store
               /\ backfill' = NextRow("update_failed")
    /\ UNCHANGED <<nextId, last, again, flow, removing>>

\* the webhook and the handlers' list, remove and help branches
NextRequests ==
    \/ \E f \in Senders, b \in SmsBodies : SmsInvalid(f, b)
    \/ \E f \in Senders, b \in SmsBodies : SmsStore(f, b)
    \/ \E f \in Senders, b \in SmsBodies : SmsCommand(f, b)
    \/ \E h \in Handlers : \E b \in HandlerBodies(h), u \in Callers : Handle(h, b, u)

\* the webhook alone, on the messages that exercise the two-line test and
\* the entry parser
NextEntries ==
    \/ \E f \in FormatSenders, b \in FormatBodies : SmsInvalid(f, b)
    \/ \E f \in FormatSenders, b \in FormatBodies : SmsStore(f, b)
    \/ \E f \in FormatSenders, b \in FormatBodies : SmsCommand(f, b)

\* the grocery and restaurant handlers on the texts with the words of two
\* branches, the recommendation flow included
NextPrecedence ==
    \/ \E b \in PrecedenceEntries, u \in Callers : SmsStore(u, b)
    \/ \E h \in PrecedenceHandlers :
          \E b \in PrecedenceBodies(h), u \in Callers : Handle(h, b, u)
    \/ \E b \in PrecedenceBodies("restaurant"), u \in Callers : Recommend(b, u)
    \/ EmbedCall
    \/ VectorSearch
    \/ Generate

\* the backfill script, the data entries that give it rows and the
\* restaurant handler's removes
NextBackfill ==
    \/ \E b \in BackfillEntries, u \in Callers : SmsStore(u, b)
    \/ \E c \in BackfillCommands, u \in Callers : Handle(c[1], c[2], u)
    \/ BackfillFetch
    \/ BackfillEmbed
    \/ BackfillUpdate

\* concurrent movie remove-by-name requests and the data entries that give
\* them rows
NextRace ==
    \/ \E b \in RaceEntries, u \in Callers : SmsStore(u, b)
    \/ \E p \in Slots, b \in RaceCommands, u \in Callers :
          MovieRemoveSelect(p, b, u)
    \/ \E p \in Slots : MovieRemoveDelete(p)

\* the recommendation flow
NextRecommend ==
    \/ \E b \in HandlerBodies("restaurant"), u \in Callers : Recommend(b, u)
    \/ EmbedCall
    \/ VectorSearch
    \/ Generate

Next == NextRequests \/ NextRecommend \/ NextBackfill \/ NextRace

Spec == Init /\ [][Next]_vars

\* the request handling alone
SpecRequests == Init /\ [][NextRequests]_vars

\* the recommendation flow alone
SpecRecommend == Init /\ [][NextRecommend]_vars

\* the webhook alone on the format and parser messages
SpecEntries == Init /\ [][NextEntries]_vars

\* the grocery and restaurant handlers on the texts of two branches
SpecPrecedence == Init /\ [][NextPrecedence]_vars

\* the backfill script running beside data entries and restaurant removes
SpecBackfill == Init /\ [][NextBackfill]_vars

\* concurrent movie remove-by-name requests
SpecRace == Init /\ [][NextRace]_vars

----------------------------------------------------------------------------
(* Vocabulary of the properties *)

\* the category value a handler's items are stored under by the data-entry
\* path (lowercase, see ParseEntry)
CategoryOf(h) ==
    CASE h = "grocery"    -> kwGrocery
      [] h = "movie"      -> kwMovie
      [] h = "tv"         -> kwTv
      [] h = "restaurant" -> kwRestaurant

\* rows of category c
RowsOf(rows, c) == SelectSeq(rows, LAMBDA r : r.category = c)

\* rows of category c whose name is n up to letter case
RowsNamed(rows, c, n) ==
    SelectSeq(rows, LAMBDA r : r.category = c /\ Lower(r.name) = Lower(n))

\* how many lines of a listing show the name n
TimesListed(reply, n) ==
    Cardinality({i \in 1..Len(reply.lines) : reply.lines[i].name = n})

\* the calls of one kind in a trace of calls
CallsTo(calls, op) == SelectSeq(calls, LAMBDA c : c.op = op)

\* every collaborator call of the request returned
NoCallFailed(calls) == \A i \in 1..Len(calls) : calls[i].ok

\* rows deleted by the request
Deleted(calls) ==
    LET d == CallsTo(calls, "delete") IN
    IF d = <<>> THEN 0 ELSE d[Len(d)].n

\* the request was a command handled by a category handler
IsHandlerRequest(l) == l.handler \in Handlers

\* the trace of the recommendation request in progress or, when none is,
\* of the one that completed last
RecommendTraces ==
    (IF flow.pc # "idle" THEN {flow.calls} ELSE {})
    \cup (IF last.handler = "restaurant" /\ last.op = "recommend"
          THEN {last.calls} ELSE {})

\* a recommendation request completed last
RecommendDone == last.handler = "restaurant" /\ last.op = "recommend"

----------------------------------------------------------------------------
(* C1: after a data-entry message "Grocery" / n is stored through the      *)
(* webhook into a table with no grocery item named n, a directly following *)
(* "list grocery" message is answered with a listing that shows n exactly  *)
(* once.                                                                   *)

StoredGrocery(l) ==
    /\ l.via = "sms" /\ l.handler = "store"
    /\ l.reply = Say("Stored!")
    /\ EntryTable[l.body].category = kwGrocery
    /\ RowsNamed(l.before, kwGrocery, EntryTable[l.body].name) = <<>>

C1_RoundTrip ==
    [][ ( /\ StoredGrocery(last)
          /\ last'.via = "sms" /\ last'.handler = "grocery"
          /\ last'.body = kwList \o sp \o kwGrocery
          /\ last'.outcome = "reply" )
        => TimesListed(last'.reply, EntryTable[last.body].name) = 1 ]_vars

----------------------------------------------------------------------------
(* C2: every request ends with a reply to the transport, whichever         *)
(* collaborator call fails: no request ends in an uncaught fault.          *)

C2_AlwaysReplies == last.outcome # "fault"

----------------------------------------------------------------------------
(* C3: a remove-by-name command whose remainder matches no stored name of  *)
(* the handler's category (and whose store calls all return) is answered   *)
(* "no ... found matching", makes no delete call and leaves the table as   *)
(* it was.                                                                 *)

NoMatchReplies == {"No movie found matching: "}

C3_NoMatchNoDelete ==
    ( /\ IsHandlerRequest(last)
      /\ last.op = "remove_name"
      /\ NoCallFailed(last.calls)
      /\ RowsNamed(last.before, CategoryOf(last.handler), last.arg) = <<>> )
    => /\ last.reply.msg \in NoMatchReplies
       /\ last.reply.arg = last.arg
       /\ CallsTo(last.calls, "delete") = <<>>
       /\ store = last.before

----------------------------------------------------------------------------
(* C4: with a grocery item "bananas" stored by the data-entry path, the    *)
(* message "remove grocery BANANAS" (in any casing) leaves no grocery item *)
(* named "bananas" in the table.                                           *)

C4_RemoveAnyCase ==
    ( /\ last.via = "sms"
      /\ last.handler = "grocery"
      /\ last.op = "remove_name"
      /\ last.arg = wBananas
      /\ NoCallFailed(last.calls)
      /\ RowsNamed(last.before, kwGrocery, wBananas) # <<>> )
    => RowsNamed(store, kwGrocery, wBananas) = <<>>

----------------------------------------------------------------------------
(* C5: a bulk remove that returns leaves no item of the handler's category *)
(* in the table, whoever stored the items and however many there were.     *)

C5_BulkRemoveEmpties ==
    ( /\ IsHandlerRequest(last)
      /\ last.op = "remove_all"
      /\ last.outcome = "reply" )
    => RowsOf(store, CategoryOf(last.handler)) = <<>>

----------------------------------------------------------------------------
(* C6: when a bulk remove that returned is directly followed by another    *)
(* bulk remove of the same handler that returns, the second one leaves the *)
(* table as the first left it, deletes no row and gives the same reply.    *)

C6_BulkRemoveIdempotent ==
    [][ ( /\ IsHandlerRequest(last)
          /\ last.op = "remove_all" /\ last.outcome = "reply"
          /\ last'.handler = last.handler
          /\ last'.op = "remove_all" /\ last'.outcome = "reply" )
        => /\ store' = store
           /\ Deleted(last'.calls) = 0
           /\ last'.reply = last.reply ]_vars

\* a second bulk remove in a row has returned, the first having deleted rows
\* of two senders; rows of another category are still in the table
C6_Witness ==
    /\ again
    /\ last.handler = "movie" /\ last.op = "remove_all"
    /\ last.outcome = "reply"
    /\ Deleted(last.calls) = 0
    /\ store # <<>>

----------------------------------------------------------------------------
(* C7: a command message received by the webhook is handled by the handler *)
(* of the first known category keyword in its lowercased text, and by the  *)
(* fallback only when it contains none.                                    *)

ExpectedRoute(body_text) ==
    LET t == Lower(body_text) IN
    IF Contains(t, kwGrocery) THEN "grocery"
    ELSE IF Contains(t, kwMovie) THEN "movie"
    ELSE IF Contains(t, kwTv) THEN "tv"
    ELSE IF Contains(t, kwRestaurant) THEN "restaurant"
    ELSE "unknown"

C7_RoutesByKeyword ==
    (last.via = "sms" /\ last.handler \in Handlers \cup {"unknown"})
    => last.handler = ExpectedRoute(last.body)

----------------------------------------------------------------------------
(* C8: a recommendation request all of whose embedding calls fail makes    *)
(* exactly max_retries embedding calls, ends with the embedding-error      *)
(* reply and makes no similarity search and no generation call.            *)

AllEmbedCallsFailed(calls) ==
    \A i \in 1..Len(calls) : calls[i].op = "embed" => ~calls[i].ok

C8_EmbeddingExhausted ==
    /\ \A t \in RecommendTraces :
          AllEmbedCallsFailed(t) =>
             /\ Len(CallsTo(t, "embed")) <= max_retries
             /\ CallsTo(t, "search") = <<>>
             /\ CallsTo(t, "generate") = <<>>
    /\ (RecommendDone /\ AllEmbedCallsFailed(last.calls)) =>
          /\ Len(CallsTo(last.calls, "embed")) = max_retries
          /\ last.reply = Say("Error generating embedding for query: ")

C8_Witness ==
    /\ RecommendDone
    /\ AllEmbedCallsFailed(last.calls)
    /\ Len(CallsTo(last.calls, "embed")) = max_retries
    /\ last.reply = Say("Error generating embedding for query: ")

----------------------------------------------------------------------------
(* C9: an embedding call that returns a vector of a length other than      *)
(* EmbeddingDim is followed by no further embedding call of the request.   *)

C9_WrongLengthNotRetried ==
    \A t \in RecommendTraces :
        \A i \in 1..Len(t) :
            (t[i].op = "embed" /\ t[i].ok /\ t[i].n # EmbeddingDim)
            => \A j \in (i+1)..Len(t) : t[j].op # "embed"

----------------------------------------------------------------------------
(* C10: a similarity search that returns no row ends the request with the  *)
(* "no relevant" reply; a generation call is made only after a similarity  *)
(* search of the request returned at least one row.                        *)

C10_EmptySearchShortCircuits ==
    /\ \A t \in RecommendTraces :
          \A i \in 1..Len(t) :
              t[i].op = "generate" =>
                 \E j \in 1..(i-1) :
                     t[j].op = "search" /\ t[j].ok /\ t[j].n >= 1
    /\ \A t \in RecommendTraces :
          (\E i \in 1..Len(t) : t[i].op = "search" /\ t[i].ok /\ t[i].n = 0)
          => /\ CallsTo(t, "generate") = <<>>
             /\ RecommendDone /\ t = last.calls
             /\ last.reply =
                  Say("No relevant restaurants found via vector search.")

C10_Witness ==
    /\ RecommendDone
    /\ \E i \in 1..Len(last.calls) :
          last.calls[i].op = "search" /\ last.calls[i].ok /\ last.calls[i].n = 0
    /\ last.reply = Say("No relevant restaurants found via vector search.")

----------------------------------------------------------------------------
(* C11: a message with a sender and a non-empty body is handled by the     *)
(* store path exactly when its body, stripped of leading and trailing      *)
(* whitespace, still contains a line break (two lines or more), and by the *)
(* command dispatch otherwise; a request handled by the store path makes   *)
(* no select and no delete call and removes no row.                        *)

TwoLinesOrMore(body_text) == Contains(Strip(body_text), nl)

C11_TwoLinesAreStored ==
    (last.via = "sms" /\ last.op # "invalid" /\ last.handler # "none") =>
        /\ (last.handler = "store") <=> TwoLinesOrMore(last.body)
        /\ (last.handler # "store") => last.handler \in Handlers \cup {"unknown"}
        /\ TwoLinesOrMore(last.body) =>
              /\ CallsTo(last.calls, "select") = <<>>
              /\ CallsTo(last.calls, "delete") = <<>>
              /\ Len(store) >= Len(last.before)
              /\ SubSeq(store, 1, Len(last.before)) = last.before

\* the message "Remove grocery" / "Bananas" was stored as an item while an
\* item was in the table, and the item is still there
C11_Witness ==
    /\ last.via = "sms" /\ last.handler = "store"
    /\ last.body = Cap(rmGrocery) \o nl \o Cap(wBananas)
    /\ last.reply = Say("Stored!")
    /\ last.before # <<>>
    /\ Len(store) = Len(last.before) + 1

----------------------------------------------------------------------------
(* C12: every row of the table has a category and a name equal to their    *)
(* own lowercase form and a subcategory that is null or equal to its own   *)
(* lowercase form, whatever the letter case of the messages stored.        *)

IsLowercase(s) == \A i \in 1..Len(s) : \A j \in 1..Len(UpperChars) : s[i] # UpperChars[j]

C12_StoredLowercase ==
    \A i \in 1..Len(store) :
        /\ IsLowercase(store[i].category)
        /\ IsLowercase(store[i].name)
        /\ store[i].subcategory # None => IsLowercase(store[i].subcategory[1])

\* the message " Movie ,Sci, Fi" / " MILK" has been stored
C12_Witness ==
    /\ last.via = "sms" /\ last.handler = "store"
    /\ last.body = FormatEntry
    /\ last.reply = Say("Stored!")
    /\ store[Len(store)].name = wMilk
    /\ store[Len(store)].category = kwMovie
    /\ store[Len(store)].subcategory # None

----------------------------------------------------------------------------
(* C13: the row a data-entry message inserts is made of lines 1 and 2 of   *)
(* the stripped message only.  With a comma in line 1 the category is the  *)
(* trimmed text before the first comma and the subcategory the trimmed     *)
(* text after it, null when that text is empty; without a comma the        *)
(* category is the whole line and the subcategory null; the name is the    *)
(* trimmed line 2 (all lowercased, see C12).  Two messages with the same   *)
(* first two lines are parsed to the same fields.                          *)

\* line k of the stripped message, trimmed
LineOf(body_text, k) == Strip(SplitLines(Strip(body_text))[k])

\* position of the first comma of a line, 0 when it has none
FirstComma(line) ==
    IF \E k \in 1..Len(line) : line[k] = ","
    THEN CHOOSE k \in 1..Len(line) :
             line[k] = "," /\ \A j \in 1..(k-1) : line[j] # ","
    ELSE 0

C13_ParsesTwoLines ==
    ( /\ last.via = "sms" /\ last.handler = "store"
      /\ last.reply = Say("Stored!") ) =>
        LET row   == store[Len(store)]
            line1 == LineOf(last.body, 1)
            k     == FirstComma(line1)
            right == Strip(SubSeq(line1, k + 1, Len(line1)))
        IN  /\ Len(store) = Len(last.before) + 1
            /\ row.name = Lower(LineOf(last.body, 2))
            /\ k = 0 => /\ row.category = Lower(line1)
                        /\ row.subcategory = None
            /\ k > 0 => /\ row.category = Lower(Strip(SubSeq(line1, 1, k - 1)))
                        /\ right = <<>> => row.subcategory = None
                        /\ right # <<>> => row.subcategory = Some(Lower(right))
            /\ \A b \in FormatBodies :
                  ( /\ TwoLinesOrMore(b)
                    /\ LineOf(b, 1) = line1
                    /\ LineOf(b, 2) = LineOf(last.body, 2) )
                  => EntryTable[b] = EntryTable[last.body]

\* the three-line message " Movie ,Sci, Fi" / " MILK" / "Hello" has been
\* stored as movie / "sci, fi" / milk, and the message "Tv," / "Milk" before
\* it with a null subcategory
C13_Witness ==
    /\ last.via = "sms" /\ last.handler = "store"
    /\ last.body = FormatEntry \o sp \o nl \o Cap(wHello)
    /\ last.reply = Say("Stored!")
    /\ Len(store) = 2
    /\ store[2].category = kwMovie
    /\ store[2].subcategory = Some(wSci \o <<",">> \o sp \o wFi)
    /\ store[2].name = wMilk
    /\ store[1].category = kwTv /\ store[1].subcategory = None

----------------------------------------------------------------------------
(* C14: a data-entry message whose category (line 1, or its part before    *)
(* the first comma) or whose name (line 2) is empty after trimming is      *)
(* answered with the validation error, makes no insert call and leaves the *)
(* table as it was.                                                        *)

\* the trimmed text the category is taken from
CategoryText(body_text) ==
    LET line1 == LineOf(body_text, 1)
        k     == FirstComma(line1)
    IN  IF k > 0 THEN Strip(SubSeq(line1, 1, k - 1)) ELSE line1

C14_InvalidEntryNotInserted ==
    ( /\ last.via = "sms" /\ last.handler = "store"
      /\ \/ CategoryText(last.body) = <<>>
         \/ LineOf(last.body, 2) = <<>> ) =>
        /\ last.reply = Say("Error: Missing category or name.")
        /\ CallsTo(last.calls, "insert") = <<>>
        /\ store = last.before

\* both invalid messages have been answered, the one with the empty second
\* line last, with a row in the table
C14_Witness ==
    /\ again
    /\ last.via = "sms" /\ last.handler = "store"
    /\ last.body = kwGrocery \o nl \o nl \o wMilk
    /\ last.reply = Say("Error: Missing category or name.")
    /\ store # <<>> /\ store = last.before

----------------------------------------------------------------------------
(* C15: a list command handled by a category handler leaves the table as   *)
(* it was and makes select calls only; when it returns and the table held  *)
(* no item of the handler's category, the reply is that handler's "nothing *)
(* found" message with no listing.                                         *)

NothingFound(h) ==
    CASE h = "grocery"    -> "No grocery items found for anyone."
      [] h = "movie"      -> "No movies found."
      [] h = "tv"         -> "No TV items found."
      [] h = "restaurant" -> "No restaurant items found."

C15_ListReadsOnly ==
    (IsHandlerRequest(last) /\ last.op = "list") =>
        /\ store = last.before
        /\ \A i \in 1..Len(last.calls) : last.calls[i].op = "select"
        /\ Len(last.calls) = 1
        /\ ( /\ last.outcome = "reply"
             /\ RowsOf(last.before, CategoryOf(last.handler)) = <<>> )
           => last.reply = Say(NothingFound(last.handler))

\* the tv handler has answered a list command "nothing found" while the
\* table held two rows of other categories
C15_Witness ==
    /\ last.handler = "tv" /\ last.op = "list"
    /\ last.reply = Say(NothingFound("tv"))
    /\ Len(store) = 2 /\ store = last.before

----------------------------------------------------------------------------
(* C18: a command handled by a category handler reads and deletes rows of  *)
(* that handler's category only: the rows of every other category are the  *)
(* same, in the same order, after the command as before it, no call        *)
(* touches more rows than the handler's category holds, and a listing      *)
(* shows names of rows of that category only.                              *)

\* rows of the categories other than c
RowsNotOf(rows, c) == SelectSeq(rows, LAMBDA r : r.category # c)

C18_OtherCategoriesUntouched ==
    IsHandlerRequest(last) =>
        LET c    == CategoryOf(last.handler)
            mine == RowsOf(last.before, c)
        IN  /\ RowsNotOf(store, c) = RowsNotOf(last.before, c)
            /\ \A i \in 1..Len(last.calls) : last.calls[i].n <= Len(mine)
            /\ \A i \in 1..Len(last.reply.lines) :
                  \E j \in 1..Len(mine) : mine[j].name = last.reply.lines[i].name

\* the tv handler has answered "remove tv Milk" while a movie named milk
\* was in the table, and the movie is still there
C18_Witness ==
    /\ last.handler = "tv" /\ last.op = "remove_name"
    /\ last.arg = wMilk /\ last.outcome = "reply"
    /\ RowsNamed(last.before, kwMovie, wMilk) # <<>>
    /\ RowsNamed(store, kwMovie, wMilk) # <<>>

----------------------------------------------------------------------------
(* C20: in the grocery and restaurant handlers a command whose lowercased  *)
(* text contains "list" is answered as a list, makes no delete call and    *)
(* leaves the table as it was, even when it also contains "remove grocery" *)
(* or "remove restaurant"; the restaurant handler goes into the            *)
(* recommendation flow exactly for the texts that contain "recommend" and  *)
(* neither "list" nor "remove restaurant".                                 *)

HasWord(body_text, w) == Contains(Lower(body_text), w)

StartsRecommendation(body_text) ==
    /\ HasWord(body_text, kwRecommend)
    /\ ~HasWord(body_text, kwList)
    /\ ~HasWord(body_text, rmRestaurant)

C20_ListTestedFirst ==
    /\ ( /\ last.handler \in PrecedenceHandlers
         /\ last.via = "call"
         /\ HasWord(last.body, kwList) ) =>
            /\ last.op = "list"
            /\ CallsTo(last.calls, "delete") = <<>>
            /\ store = last.before
    /\ (last.handler = "restaurant" /\ last.via = "call") =>
            (last.op = "recommend" <=> StartsRecommendation(last.body))
    /\ flow.pc # "idle" => StartsRecommendation(flow.body)

\* the restaurant handler has answered "Remove restaurant from my list"
\* with the listing of the one restaurant in the table, which is still there
C20_Witness ==
    /\ last.handler = "restaurant" /\ last.op = "list"
    /\ last.body = Cap(rmRestaurant) \o sp \o fromMyList
    /\ Len(last.reply.lines) = 1
    /\ RowsOf(store, kwRestaurant) # <<>>

----------------------------------------------------------------------------
(* C16: no step changes the user_id, category, subcategory, name or notes  *)
(* of a row that is in the table before and after it; a row's embedding    *)
(* changes only in the backfill script's update of that row; and a request *)
(* handled by a category handler leaves in the table only rows that were   *)
(* there before it, unchanged.                                             *)

SameItem(r, q) ==
    /\ r.user_id = q.user_id /\ r.category = q.category
    /\ r.subcategory = q.subcategory /\ r.name = q.name /\ r.notes = q.notes

C16_ItemsImmutable ==
    [][ /\ \A i \in 1..Len(store) : \A j \in 1..Len(store') :
              store[i].id = store'[j].id =>
                 /\ SameItem(store[i], store'[j])
                 /\ store'[j].embedding # store[i].embedding =>
                       /\ backfill.pc = "update"
                       /\ backfill.rows[backfill.i].id = store[i].id
                       /\ store'[j].embedding # None
        /\ (last' # last /\ IsHandlerRequest(last')) =>
              \A j \in 1..Len(store') :
                  \E i \in 1..Len(store) : store'[j] = store[i] ]_vars

\* the backfill has written an embedding to one restaurant row, a remove by
\* name has then deleted the other, and the row left is as it was stored
C16_Witness ==
    /\ last.handler = "restaurant" /\ last.op = "remove_name"
    /\ Deleted(last.calls) = 1
    /\ Len(store) = 1
    /\ store[1].embedding # None
    /\ store[1].name = wBananas /\ store[1].category = kwRestaurant
    /\ store[1].user_id = "+1"

----------------------------------------------------------------------------
(* C19: every embedding in the table is on a restaurant row and has        *)
(* EmbeddingDim components; the backfill script writes only to rows it     *)
(* fetched, which are restaurant rows whose embedding was null; a row      *)
(* whose embedding or update failed in the current run has a null          *)
(* embedding; and the script processes every row it fetched, whatever      *)
(* failed before.                                                          *)

C19_BackfillWritesValidOnly ==
    /\ \A i \in 1..Len(store) :
          store[i].embedding # None =>
             /\ store[i].category = kwRestaurant
             /\ store[i].embedding = Some(EmbeddingDim)
    /\ \A k \in 1..Len(backfill.rows) :
          /\ backfill.rows[k].category = kwRestaurant
          /\ backfill.rows[k].embedding = None
    /\ \A k \in 1..Len(backfill.log) :
          /\ backfill.log[k].id = backfill.rows[k].id
          /\ backfill.log[k].result \in {"failed", "update_failed"} =>
                \A i \in 1..Len(store) :
                    store[i].id = backfill.log[k].id => store[i].embedding = None
          /\ backfill.log[k].result = "written" =>
                \A i \in 1..Len(store) :
                    store[i].id = backfill.log[k].id =>
                        store[i].embedding = Some(EmbeddingDim)
    /\ backfill.pc = "done" => Len(backfill.log) = Len(backfill.rows)
    /\ backfill.pc \in {"embed", "update"} =>
          /\ backfill.i \in 1..Len(backfill.rows)
          /\ Len(backfill.log) = backfill.i - 1

\* a run has ended in which the first row's embedding failed and the second
\* row's embedding was written
C19_Witness ==
    /\ backfill.pc = "done"
    /\ Len(backfill.rows) = 2
    /\ backfill.log[1].result = "failed"
    /\ backfill.log[2].result = "written"
    /\ Len(store) = 2
    /\ store[1].embedding = None
    /\ store[2].embedding = Some(EmbeddingDim)

----------------------------------------------------------------------------
(* C17: the movie handler's remove by name makes its select and its delete *)
(* as two store calls between which other requests can act.  The request   *)
(* makes its delete call only after its select returned a row, and once    *)
(* its delete has returned it answers "Removed movie: <name>" whatever     *)
(* number of rows the delete removed; with two concurrent requests that    *)
(* number can be zero (the witness).                                       *)

C17_ReplyFollowsSelectOnly ==
    ( /\ last.handler = "movie" /\ last.op = "remove_name"
      /\ CallsTo(last.calls, "delete") # <<>> ) =>
        /\ Len(last.calls) = 2
        /\ last.calls[1].op = "select" /\ last.calls[1].ok
        /\ last.calls[1].n >= 1
        /\ last.calls[2].op = "delete"
        /\ last.calls[2].ok =>
              /\ last.reply = Reply("Removed movie: ", last.arg, <<>>)
              /\ Len(store) = Len(last.before) - last.calls[2].n

\* two requests to remove the movie "milk" ran at the same time: the second
\* to delete had matched one row, deleted none and answered "Removed movie"
C17_Witness ==
    /\ again
    /\ last.handler = "movie" /\ last.op = "remove_name"
    /\ last.arg = wMilk
    /\ last.calls[1].n = 1
    /\ last.calls[2].op = "delete" /\ last.calls[2].ok /\ last.calls[2].n = 0
    /\ last.reply = Reply("Removed movie: ", wMilk, <<>>)
    /\ store = last.before

----------------------------------------------------------------------------
(* C21: in a recommendation request generate_embedding makes at most       *)
(* max_retries provider calls and ends by returning a vector of            *)
(* EmbeddingDim components or by raising.  The similarity search is called *)
(* at most once, directly after an embedding call that returned such a     *)
(* vector; the request is at its search step only then.  The delay comes   *)
(* only after a failed attempt that is followed by another attempt: at     *)
(* most max_retries - 1 times, never after the last failed attempt and     *)
(* never as the last thing a request does.                                 *)

\* the call returned a vector of the accepted length
GoodVector(c) == c.op = "embed" /\ c.ok /\ c.n = EmbeddingDim

C21_EmbeddingReturnsVectorOrRaises ==
    /\ \A t \in RecommendTraces :
          /\ Len(CallsTo(t, "embed")) <= max_retries
          /\ Len(CallsTo(t, "search")) <= 1
          /\ Len(CallsTo(t, "sleep")) <= max_retries - 1
          /\ \A i \in 1..Len(t) :
                /\ t[i].op = "search" => (i > 1 /\ GoodVector(t[i-1]))
                /\ t[i].op = "sleep" =>
                      /\ i > 1 /\ t[i-1].op = "embed" /\ ~GoodVector(t[i-1])
                      /\ Len(CallsTo(SubSeq(t, 1, i), "embed")) < max_retries
                      /\ i < Len(t) => t[i+1].op = "embed"
                /\ (GoodVector(t[i]) /\ i < Len(t)) => t[i+1].op = "search"
    /\ flow.pc = "search" =>
          (flow.calls # <<>> /\ GoodVector(flow.calls[Len(flow.calls)]))
    /\ flow.pc = "embed" =>
          (flow.calls = <<>> \/ flow.calls[Len(flow.calls)].op = "sleep")
    /\ RecommendDone =>
          (last.calls # <<>> /\ last.calls[Len(last.calls)].op # "sleep")

\* a request slept twice, got a vector on its third attempt and searched once
C21_Witness ==
    /\ RecommendDone
    /\ Len(CallsTo(last.calls, "sleep")) = max_retries - 1
    /\ Len(CallsTo(last.calls, "embed")) = max_retries
    /\ Len(CallsTo(last.calls, "search")) = 1
    /\ \E i \in 1..Len(last.calls) :
          last.calls[i].op = "embed" /\ last.calls[i].ok
          /\ last.calls[i].n # EmbeddingDim

====
